---- MODULE Spec2Model ----
(***************************************************************************)
(* Model of server/sketch_extrude_importer.py: SketchExtrudeImporter       *)
(* replays a recorded timeline of sketches and extrude features into a CAD *)
(* document.                                                               *)
(*                                                                         *)
(* Three specifications share the module:                                  *)
(*   Spec        the timeline driver (reconstruct and everything it calls) *)
(*   SpecMatch   find_profile applied to bounded kernel profile sequences  *)
(*   SpecExtrude the extent input built by reconstruct_extrude_feature     *)
(*                                                                         *)
(* Numbers.  TLC has no reals.  Areas, perimeters and centroid coordinates *)
(* are exact fixed-point values [i, n] standing for i + n * 1e-9 with      *)
(* 0 <= n < 1e9 (floating-point rounding is not modelled).  Extrude        *)
(* distances are counted in halves of a unit so that "* 0.5" is exact.     *)
(* Curve uuids are natural numbers ordered as the uuid strings are; 0 is   *)
(* Python's None.                                                          *)
(***************************************************************************)
EXTENDS Integers, Sequences, FiniteSets

VARIABLES
    pc,                 \* position of the running call
    timeline,           \* self.data["timeline"], as the sequence of entity ids
    pos,                \* index of the timeline entry being processed
    err,                \* the exception that ended the run, or "none"
    sketch_profiles,    \* reconstruct's lookup table: profile id -> profile or None
    sketches,           \* the document's sketches, in creation order
    curve_idx,          \* position of reconstruct_sketch_curves in curves_data
    features,           \* the document's extrude features, in creation order
    create_input_calls, \* timeline positions for which extrudes.createInput ran
    last_return,        \* what the last reconstruct_sketch call returned
    m_profiles,         \* SpecMatch: the kernel's profile sequence
    m_data,             \* SpecMatch: profile_data
    m_result,           \* SpecMatch: what find_profile returned
    x_data,             \* SpecExtrude: extrude_data
    x_input             \* SpecExtrude: the extrude input that was built

vars == <<pc, timeline, pos, err, sketch_profiles, sketches, curve_idx, features,
          create_input_calls, last_return, m_profiles, m_data, m_result,
          x_data, x_input>>

driver_vars == <<timeline, pos, err, sketch_profiles, sketches, curve_idx, features,
                 create_input_calls, last_return>>
match_vars == <<m_profiles, m_data, m_result>>
extrude_vars == <<x_data, x_input>>

-----------------------------------------------------------------------------
(* Bounds of the model *)

\* longest timeline
MaxTimeline == 3
\* most profiles the kernel enumerates for one sketch
MaxProfiles == 2

-----------------------------------------------------------------------------
(* Python values *)

\* None, where a curve uuid is expected (name.get_uuid on an untagged curve)
NoUuid == 0

\* None, where a profile is expected
None == [handle |-> <<0, 0>>]

\* fixed-point: nanos in one unit
NanoPerUnit == 1000000000

Val(i, n) == [i |-> i, n |-> n]

AddNano(v, d) ==
    LET t == v.n + d
    IN  [i |-> v.i + (t \div NanoPerUnit), n |-> t % NanoPerUnit]

Abs(k) == IF k < 0 THEN -k ELSE k

\* floor(|v|), in units
FloorAbs(v) ==
    IF v.i >= 0 THEN v.i ELSE IF v.n = 0 THEN -v.i ELSE -v.i - 1

\* |a - b| <= k nanos, for 0 <= k < NanoPerUnit
DiffWithin(a, b, k) ==
    LET di == a.i - b.i
        dn == a.n - b.n
    IN  IF di = 0 THEN Abs(dn) <= k
        ELSE IF di = 1 THEN NanoPerUnit + dn <= k
        ELSE IF di = -1 THEN NanoPerUnit - dn <= k
        ELSE FALSE

\* math.isclose's default rel_tol is 1e-09: rel_tol * |v| is |v| nanos, and an
\* integer number of nanos is below it exactly when it is below its floor
RelTolNanos(v) == FloorAbs(v)

\* math.isclose(a, b, abs_tol=abs_tol):
\*   diff <= |rel_tol * b| or diff <= |rel_tol * a| or diff <= abs_tol
isclose(a, b, abs_tol) ==
    \/ a = b
    \/ DiffWithin(a, b, RelTolNanos(b))
    \/ DiffWithin(a, b, RelTolNanos(a))
    \/ DiffWithin(a, b, abs_tol)

\* tolerance = 0.000000001, in nanos
tolerance == 1

-----------------------------------------------------------------------------
(* Lists *)

RECURSIVE Insert(_, _)
Insert(x, s) ==
    IF s = <<>> THEN <<x>>
    ELSE IF x <= Head(s) THEN <<x>> \o s
    ELSE <<Head(s)>> \o Insert(x, Tail(s))

RECURSIVE sorted(_)
sorted(s) == IF s = <<>> THEN <<>> ELSE Insert(Head(s), sorted(Tail(s)))

RECURSIVE Flatten(_)
Flatten(ss) == IF ss = <<>> THEN <<>> ELSE Head(ss) \o Flatten(Tail(ss))

SeqsUpTo(S, k) == UNION {[1..j -> S] : j \in 0..k}

-----------------------------------------------------------------------------
(* The matcher: find_profile and what it calls *)

\* name.get_uuid(sketch_ent): the uuid attached to the entity, None if there is none
get_uuid(sketch_ent) == sketch_ent.tag

\* profile_data["loops"][..]["profile_curves"][..]["curve"], sorted
get_curve_uuids(profile_data) == sorted(Flatten(profile_data.loops))

\* the loop of lines 52-58: the uuids of the profile's curves, None left out
found_curve_uuids(profile) ==
    LET ents  == Flatten(profile.profileLoops)
        uuids == [k \in 1..Len(ents) |-> get_uuid(ents[k])]
    IN  SelectSeq(uuids, LAMBDA u : u # NoUuid)

are_profile_properties_identical_no_z(profile, profile_data) ==
    LET profile_props == profile.areaProperties
        props == profile_data.properties
    IN  /\ isclose(profile_props.area, props.area, tolerance)
        /\ isclose(profile_props.perimeter, props.perimeter, tolerance)
        /\ isclose(profile_props.centroid.x, props.centroid.x, tolerance)
        /\ isclose(profile_props.centroid.y, props.centroid.y, tolerance)

are_profile_properties_identical(profile, profile_data) ==
    LET profile_props == profile.areaProperties
        props == profile_data.properties
    IN  /\ isclose(profile_props.area, props.area, tolerance)
        /\ isclose(profile_props.perimeter, props.perimeter, tolerance)
        /\ isclose(profile_props.centroid.x, props.centroid.x, tolerance)
        /\ isclose(profile_props.centroid.y, props.centroid.y, tolerance)
        /\ isclose(profile_props.centroid.z, props.centroid.z, tolerance)

ToSet(s) == {s[k] : k \in 1..Len(s)}

\* the test of line 60 asking only that every recorded uuid is among the found ones
profile_matches_subset(profile, profile_data) ==
    /\ ToSet(get_curve_uuids(profile_data)) \subseteq ToSet(found_curve_uuids(profile))
    /\ are_profile_properties_identical(profile, profile_data)

\* the test of line 60
profile_matches(profile, profile_data) ==
    /\ sorted(found_curve_uuids(profile)) = get_curve_uuids(profile_data)
    /\ are_profile_properties_identical(profile, profile_data)

\* find_profile returning the last match instead of the first
find_profile_last(profiles, profile_uuid, profile_data) ==
    LET hits == {k \in 1..Len(profiles) : profile_matches(profiles[k], profile_data)}
    IN  IF hits = {} THEN None
        ELSE profiles[CHOOSE k \in hits : \A j \in hits : j <= k]

\* the loop of lines 51-62, from position k on
RECURSIVE find_from(_, _, _)
find_from(profiles, k, profile_data) ==
    IF k > Len(profiles) THEN None
    ELSE IF profile_matches(profiles[k], profile_data) THEN profiles[k]
    ELSE find_from(profiles, k + 1, profile_data)

find_profile(profiles, profile_uuid, profile_data) ==
    find_from(profiles, 1, profile_data)

-----------------------------------------------------------------------------
(* The extrude input: what reconstruct_extrude_feature builds after createInput *)

\* fixed-point: halves in one unit
HalvesPerUnit == 2

\* a number of the record, as a fixed-point real
Real(v) == v * HalvesPerUnit

\* real * 0.5
Half(r) == r \div HalvesPerUnit

\* adsk.core.ValueInput.createByReal
createByReal(r) == [real |-> r]

set_one_side_extrude_input(extent_one) ==
    LET distance == createByReal(Real(extent_one.distance))
        taper_angle ==
            IF "taper_angle" \in DOMAIN extent_one
            THEN createByReal(Real(extent_one.taper_angle))
            ELSE createByReal(0)
    IN  [method |-> "setOneSideExtent", distance_one |-> distance,
         direction |-> "PositiveExtentDirection", taper_angle_one |-> taper_angle]

set_two_side_extrude_input(extent_one, extent_two) ==
    LET distance_one == createByReal(Real(extent_one.distance))
        distance_two == createByReal(Real(extent_two.distance))
        taper_angle_one ==
            IF "taper_angle" \in DOMAIN extent_one
            THEN createByReal(Real(extent_one.taper_angle))
            ELSE createByReal(0)
        taper_angle_two ==
            IF "taper_angle" \in DOMAIN extent_two
            THEN createByReal(Real(extent_two.taper_angle))
            ELSE createByReal(0)
    IN  [method |-> "setTwoSidesExtent",
         distance_one |-> distance_one, distance_two |-> distance_two,
         taper_angle_one |-> taper_angle_one, taper_angle_two |-> taper_angle_two]

\* set_symmetric_extrude_input without the halving of a full-length distance
set_symmetric_extrude_input_not_halved(extent_one) ==
    LET distance == Real(extent_one.distance)
        taper ==
            IF "taper_angle" \in DOMAIN extent_one
            THEN createByReal(Real(extent_one.taper_angle))
            ELSE createByReal(0)
    IN  [method |-> "setTwoSidesExtent",
         distance_one |-> createByReal(distance), distance_two |-> createByReal(distance),
         taper_angle_one |-> taper, taper_angle_two |-> taper]

set_symmetric_extrude_input(extent_one) ==
    LET distance ==
            IF extent_one.is_full_length
            THEN Half(Real(extent_one.distance))
            ELSE Real(extent_one.distance)
        taper_angle_one ==
            IF "taper_angle" \in DOMAIN extent_one
            THEN createByReal(Real(extent_one.taper_angle))
            ELSE createByReal(0)
        taper_angle_two ==
            IF "taper_angle" \in DOMAIN extent_one
            THEN createByReal(Real(extent_one.taper_angle))
            ELSE createByReal(0)
    IN  [method |-> "setTwoSidesExtent",
         distance_one |-> createByReal(distance), distance_two |-> createByReal(distance),
         taper_angle_one |-> taper_angle_one, taper_angle_two |-> taper_angle_two]

\* extrude_input.startExtent after set_start_extent
set_start_extent(start_extent) ==
    IF start_extent.type = "OffsetStartDefinition"
    THEN [type |-> "OffsetStartDefinition", offset |-> createByReal(Real(start_extent.offset))]
    ELSE [type |-> "ProfilePlaneStartDefinition"]

\* lines 173-186: the extent set on the input, then its start extent
build_extrude_input(extrude_data) ==
    [extent |->
        IF extrude_data.extent_type = "OneSideFeatureExtentType"
        THEN set_one_side_extrude_input(extrude_data.extent_one)
        ELSE IF extrude_data.extent_type = "TwoSidesFeatureExtentType"
        THEN set_two_side_extrude_input(extrude_data.extent_one, extrude_data.extent_two)
        ELSE IF extrude_data.extent_type = "SymmetricFeatureExtentType"
        THEN set_symmetric_extrude_input(extrude_data.extent_one)
        ELSE [method |-> "none"],
     startExtent |-> set_start_extent(extrude_data.start_extent)]

-----------------------------------------------------------------------------
(* SpecMatch: find_profile on bounded inputs *)

\* the five recorded/computed properties, in the order they are compared
Fields(props) ==
    <<props.area, props.perimeter, props.centroid.x, props.centroid.y,
      props.centroid.z>>

BaseProps(b) ==
    [area |-> b, perimeter |-> b, centroid |-> [x |-> b, y |-> b, z |-> b]]

\* props with field f moved by d nanos
Perturb(props, f, d) ==
    CASE f = 1 -> [props EXCEPT !.area = AddNano(@, d)]
      [] f = 2 -> [props EXCEPT !.perimeter = AddNano(@, d)]
      [] f = 3 -> [props EXCEPT !.centroid.x = AddNano(@, d)]
      [] f = 4 -> [props EXCEPT !.centroid.y = AddNano(@, d)]
      [] f = 5 -> [props EXCEPT !.centroid.z = AddNano(@, d)]

\* recorded values: around zero, a large positive and a large negative one
Bases == {Val(0, 0), Val(1000, 0), Val(-1000, 0)}

\* distances between a kernel value and the recorded one, in nanos: at and just
\* beyond 1e-9 around zero, inside and beyond 1e-9 * 1000 around +-1000
Deltas(b) ==
    IF b = Val(0, 0) THEN {1, 2}
    ELSE IF b = Val(1000, 0) THEN {500, 2000}
    ELSE {-500, -2000}

CandProps(b) ==
    {BaseProps(b)} \cup {Perturb(BaseProps(b), f, d) : f \in 1..5, d \in Deltas(b)}

\* loops of a profile record, as sequences of curve uuids
RecLoops == { <<<<1>>>>, <<<<2>>, <<1>>>> }

Ent(u) == [tag |-> u]

\* loops of a kernel profile, as sequences of sketch entities
CandLoops ==
    { <<<<Ent(1)>>>>,
      <<<<Ent(2), Ent(1)>>>>,
      <<<<Ent(1)>>, <<Ent(NoUuid)>>>>,
      <<<<Ent(1), Ent(1)>>>>,
      <<<<Ent(2)>>>> }

\* kernel profiles: every boundary with the recorded properties, and two of the
\* boundaries with every perturbed property
Candidates(b) ==
    {c \in [profileLoops : CandLoops, areaProperties : CandProps(b)] :
        \/ c.areaProperties = BaseProps(b)
        \/ c.profileLoops \in { <<<<Ent(1)>>>>, <<<<Ent(2), Ent(1)>>>> }}

\* the kernel's profiles are distinct objects: the handle is the object's identity
WithHandles(sk, s) ==
    [k \in 1..Len(s) |->
        [handle |-> <<sk, k>>, profileLoops |-> s[k].profileLoops,
         areaProperties |-> s[k].areaProperties]]

EmptyMap == [k \in {} |-> None]

\* no reconstruct_sketch call has returned yet
NoReturn == [entry |-> 0, is_none |-> TRUE, mapping |-> EmptyMap]

DriverIdle ==
    /\ timeline = <<>>
    /\ pos = 1
    /\ err = "none"
    /\ sketch_profiles = <<>>
    /\ sketches = <<>>
    /\ curve_idx = 1
    /\ features = <<>>
    /\ create_input_calls = {}
    /\ last_return = NoReturn

MatchIdle ==
    /\ m_profiles = <<>>
    /\ m_data = None
    /\ m_result = None

ExtrudeIdle ==
    /\ x_data = None
    /\ x_input = None

InitMatch ==
    /\ pc = "find_profile"
    /\ \E b \in Bases :
        /\ m_data \in [loops : RecLoops, properties : {BaseProps(b)}]
        /\ m_profiles \in {WithHandles(1, s) : s \in SeqsUpTo(Candidates(b), MaxProfiles)}
    /\ m_result = None
    /\ DriverIdle
    /\ ExtrudeIdle

\* one call of find_profile(profiles, profile_uuid, profile_data)
FindProfile ==
    /\ pc = "find_profile"
    /\ m_result' = find_profile(m_profiles, "p", m_data)
    /\ pc' = "returned"
    /\ UNCHANGED <<m_profiles, m_data, driver_vars, extrude_vars>>

NextMatch == FindProfile

SpecMatch == InitMatch /\ [][NextMatch]_vars

-----------------------------------------------------------------------------
(* Claims about the matcher *)

\* how often uuid u bounds the kernel profile (untagged curves carry no uuid)
TagCount(profile, u) ==
    LET ents == Flatten(profile.profileLoops)
    IN  Cardinality({k \in 1..Len(ents) : ents[k].tag = u})

\* how often uuid u occurs in the record's loops
RecCount(profile_data, u) ==
    LET us == Flatten(profile_data.loops)
    IN  Cardinality({k \in 1..Len(us) : us[k] = u})

UuidsOf(profile, profile_data) ==
    ({Flatten(profile.profileLoops)[k].tag : k \in 1..Len(Flatten(profile.profileLoops))}
        \cup {Flatten(profile_data.loops)[k] : k \in 1..Len(Flatten(profile_data.loops))})
    \ {NoUuid}

\* the two multisets of curve uuids are the same
SameCurveMultiset(profile, profile_data) ==
    \A u \in UuidsOf(profile, profile_data) :
        TagCount(profile, u) = RecCount(profile_data, u)

\* the positions of m_profiles that pass both checks
Passing ==
    {k \in 1..Len(m_profiles) :
        /\ SameCurveMultiset(m_profiles[k], m_data)
        /\ are_profile_properties_identical(m_profiles[k], m_data)}

\* C2: find_profile returns the first profile, in enumeration order, that passes
\* the curve-identifier check and the geometric check; the only one when exactly
\* one passes; None when none passes.
C2_FirstMatch ==
    pc = "returned" =>
        /\ Passing = {} => m_result = None
        /\ \A k \in Passing :
              (\A j \in Passing : k <= j) => m_result = m_profiles[k]
        /\ \A k \in Passing : Passing = {k} => m_result = m_profiles[k]

\* two profiles pass and the first was returned
C2_Witness ==
    /\ pc = "returned"
    /\ Cardinality(Passing) = 2
    /\ m_result = m_profiles[1]
    /\ 1 \in Passing

\* C3: find_profile never returns a candidate whose multiset of attached curve
\* uuids (untagged curves left out) differs from the record's, whatever its
\* area, perimeter and centroid.
C3_NeverDifferentCurves ==
    (pc = "returned" /\ m_result # None) => SameCurveMultiset(m_result, m_data)

\* a candidate with the recorded properties and another boundary was passed over
C3_Witness ==
    /\ pc = "returned"
    /\ \E k \in 1..Len(m_profiles) :
          /\ are_profile_properties_identical(m_profiles[k], m_data)
          /\ ~SameCurveMultiset(m_profiles[k], m_data)
          /\ m_result # m_profiles[k]

\* properties f of the candidate and the record are further than k nanos apart
FieldBeyond(profile, profile_data, f, k) ==
    ~DiffWithin(Fields(profile.areaProperties)[f], Fields(profile_data.properties)[f], k)

Max2(a, b) == IF a >= b THEN a ELSE b

\* the tolerance math.isclose applies to a and b, in nanos:
\* max(rel_tol * max(|a|, |b|), abs_tol) with rel_tol = abs_tol = 1e-9
EffectiveTol(a, b) == Max2(tolerance, Max2(FloorAbs(a), FloorAbs(b)))

FieldBeyondEffective(profile, profile_data, f) ==
    FieldBeyond(profile, profile_data, f,
                EffectiveTol(Fields(profile.areaProperties)[f],
                             Fields(profile_data.properties)[f]))

\* C4 as stated: a candidate with the record's curve multiset and one property
\* more than 1e-9 away from the recorded value fails the comparison and is not
\* returned, at every magnitude.
C4_AbsoluteTolerance ==
    pc = "returned" =>
        \A k \in 1..Len(m_profiles) :
            ( /\ SameCurveMultiset(m_profiles[k], m_data)
              /\ \E f \in 1..5 : FieldBeyond(m_profiles[k], m_data, f, tolerance) )
            => /\ ~are_profile_properties_identical(m_profiles[k], m_data)
               /\ m_result # m_profiles[k]

\* C4 amended: a candidate with the record's curve multiset and one property more
\* than max(1e-9, 1e-9 * max(|candidate value|, |recorded value|)) away from the
\* recorded value fails the comparison and is not returned; all five must pass.
C4_IscloseTolerance ==
    pc = "returned" =>
        \A k \in 1..Len(m_profiles) :
            ( /\ SameCurveMultiset(m_profiles[k], m_data)
              /\ \E f \in 1..5 : FieldBeyondEffective(m_profiles[k], m_data, f) )
            => /\ ~are_profile_properties_identical(m_profiles[k], m_data)
               /\ m_result # m_profiles[k]

\* the only candidate has the record's curves and a centroid z out of tolerance
C4_Witness ==
    /\ pc = "returned"
    /\ Len(m_profiles) = 1
    /\ SameCurveMultiset(m_profiles[1], m_data)
    /\ FieldBeyondEffective(m_profiles[1], m_data, 5)
    /\ m_result = None

-----------------------------------------------------------------------------
(* SpecExtrude: the extent input on bounded extrude records *)

Distances == {0, 3, 10, -4}
Tapers == {0, 1, -2}

ExtentOnes ==
    [distance : Distances, is_full_length : BOOLEAN]
        \cup [distance : Distances, is_full_length : BOOLEAN, taper_angle : Tapers]

ExtentTwos == [distance : {3, 10}] \cup [distance : {3, 10}, taper_angle : {1}]

StartExtents ==
    {[type |-> "ProfilePlaneStartDefinition"], [type |-> "FromEntityStartDefinition"]}
        \cup [type : {"OffsetStartDefinition"}, offset : {1, -3}]

ExtentTypes ==
    {"OneSideFeatureExtentType", "TwoSidesFeatureExtentType",
     "SymmetricFeatureExtentType", "ToEntityFeatureExtentType"}

InitExtrude ==
    /\ pc = "extrude_input"
    /\ x_data \in [extent_type : ExtentTypes, extent_one : ExtentOnes,
                   extent_two : ExtentTwos, start_extent : StartExtents]
    /\ x_input = None
    /\ DriverIdle
    /\ MatchIdle

\* lines 173-186 of reconstruct_extrude_feature on x_data
BuildExtrudeInput ==
    /\ pc = "extrude_input"
    /\ x_input' = build_extrude_input(x_data)
    /\ pc' = "built"
    /\ UNCHANGED <<x_data, driver_vars, match_vars>>

NextExtrude == BuildExtrudeInput

SpecExtrude == InitExtrude /\ [][NextExtrude]_vars

\* the taper angle both sides of a symmetric extrude are to receive
ExpectedTaper(extent_one) ==
    IF "taper_angle" \in DOMAIN extent_one THEN Real(extent_one.taper_angle) ELSE 0

\* C8: a symmetric extrude of recorded distance d is set through the two-sides
\* call with equal distances, d/2 each when is_full_length is set and d each
\* otherwise, and the same taper angle on both sides: the recorded one, else 0.
C8_SymmetricAsTwoSides ==
    (pc = "built" /\ x_data.extent_type = "SymmetricFeatureExtentType") =>
        LET e == x_input.extent
            d == Real(x_data.extent_one.distance)
        IN  /\ e.method = "setTwoSidesExtent"
            /\ e.distance_one = e.distance_two
            /\ x_data.extent_one.is_full_length => e.distance_one.real + e.distance_one.real = d
            /\ ~x_data.extent_one.is_full_length => e.distance_one.real = d
            /\ e.taper_angle_one = e.taper_angle_two
            /\ e.taper_angle_one.real = ExpectedTaper(x_data.extent_one)

\* distance 10, full length, tapered: 5 on each side
C8_Witness ==
    /\ pc = "built"
    /\ x_data.extent_type = "SymmetricFeatureExtentType"
    /\ x_data.extent_one.distance = 10
    /\ x_data.extent_one.is_full_length
    /\ "taper_angle" \in DOMAIN x_data.extent_one
    /\ x_input.extent.distance_one = createByReal(Real(5))
    /\ x_input.extent.distance_two = createByReal(Real(5))

-----------------------------------------------------------------------------
(* Spec: the timeline driver *)

DriverProps == {BaseProps(Val(1000, 0))}

Line(u, cg, a, b) ==
    [uuid |-> u, type |-> "SketchLine", construction_geom |-> cg,
     start_point |-> a, end_point |-> b]
Arc(u, cg, a, c) ==
    [uuid |-> u, type |-> "SketchArc", construction_geom |-> cg,
     start_point |-> a, center_point |-> c]
Circle(u, cg, c) ==
    [uuid |-> u, type |-> "SketchCircle", construction_geom |-> cg, center_point |-> c]

ProfileData(loops) ==
    [loops |-> loops, properties |-> BaseProps(Val(1000, 0))]

\* self.data["entities"]: the records the timelines are drawn over
entities ==
    [S1 |-> [type |-> "Sketch", points |-> {"pt1", "pt2"},
             curves |-> <<Line(1, FALSE, "pt1", "pt2"), Circle(2, FALSE, "pt1"),
                          Line(3, TRUE, "pt1", "pt2")>>,
             profiles |-> [pA |-> ProfileData(<<<<2>>>>)]],
     S2 |-> [type |-> "Sketch", points |-> {},
             profiles |-> [pB |-> ProfileData(<<<<1>>>>)]],
     S3 |-> [type |-> "Sketch", points |-> {}, curves |-> <<>>,
             profiles |-> [pB |-> ProfileData(<<<<1>>>>)]],
     S4 |-> [type |-> "Sketch", points |-> {"pt1"},
             curves |-> <<Arc(4, FALSE, "pt1", "pt1"),
                          [uuid |-> 5, type |-> "SketchEllipse", construction_geom |-> FALSE],
                          Line(6, FALSE, "pt1", "pt9")>>,
             profiles |-> [pC |-> ProfileData(<<<<4>>>>)]],
     E1 |-> [type |-> "ExtrudeFeature", profiles |-> <<"pA">>,
             operation |-> "NewBodyFeatureOperation",
             extent_type |-> "OneSideFeatureExtentType",
             extent_one |-> [distance |-> 3],
             start_extent |-> [type |-> "ProfilePlaneStartDefinition"]],
     E2 |-> [type |-> "ExtrudeFeature", profiles |-> <<"pA", "pB">>,
             operation |-> "JoinFeatureOperation",
             extent_type |-> "SymmetricFeatureExtentType",
             extent_one |-> [distance |-> 10, is_full_length |-> TRUE, taper_angle |-> 1],
             start_extent |-> [type |-> "OffsetStartDefinition", offset |-> 1]],
     E3 |-> [type |-> "ExtrudeFeature", profiles |-> <<"pB">>,
             operation |-> "CutFeatureOperation",
             extent_type |-> "TwoSidesFeatureExtentType",
             extent_one |-> [distance |-> 3], extent_two |-> [distance |-> 10, taper_angle |-> 1],
             start_extent |-> [type |-> "ProfilePlaneStartDefinition"]],
     X1 |-> [type |-> "ConstructionPlane"]]

\* the ids a timeline entry may name: the entities, and one that is no entity
EntityIds == DOMAIN entities \cup {"Z9"}

\* d[key]: KeyError when key is no key of d
subscript(d, key) ==
    IF key \in DOMAIN d
    THEN [raised |-> FALSE, value |-> d[key]]
    ELSE [raised |-> TRUE, value |-> None]

\* sketch_profiles.get(profile_uuid): a missing profile id reads as None
lookup_profile_get(table, profile_uuid) ==
    [raised |-> FALSE,
     value |-> IF profile_uuid \in DOMAIN table THEN table[profile_uuid] ELSE None]

\* line 166: sketch_profiles[profile_uuid]
lookup_profile(table, profile_uuid) == subscript(table, profile_uuid)

\* the for loop of reconstruct moving two entries on
next_entry_skipping(i) == i + 2

\* the for loop of reconstruct moving to the next entry
next_entry(i) == i + 1

\* sketch_profiles = sketch_profile_set: the table replaced instead of merged
update_replacing(d, other) == other

\* d.update(**other)
update(d, other) ==
    [k \in DOMAIN d \cup DOMAIN other |-> IF k \in DOMAIN other THEN other[k] ELSE d[k]]

\* reconstruct_curves keeping only the profiles that were found
reconstruct_curves_found_only(profiles, sketch_data) ==
    LET found == {p \in DOMAIN sketch_data.profiles :
                    find_profile(profiles, p, sketch_data.profiles[p]) # None}
    IN  [p \in found |-> find_profile(profiles, p, sketch_data.profiles[p])]

\* lines 113-118: the mapping reconstruct_curves returns, given sketch.profiles
reconstruct_curves(profiles, sketch_data) ==
    [profile_uuid \in DOMAIN sketch_data.profiles |->
        find_profile(profiles, profile_uuid, sketch_data.profiles[profile_uuid])]

\* the point ids reconstruct_sketch_line/arc/circle look up in points_data
PointRefs(curve) ==
    IF curve.type = "SketchLine" THEN {curve.start_point, curve.end_point}
    ELSE IF curve.type = "SketchArc" THEN {curve.start_point, curve.center_point}
    ELSE {curve.center_point}

SupportedCurveTypes == {"SketchLine", "SketchArc", "SketchCircle"}

RECURSIVE SetToSeq(_)
SetToSeq(S) ==
    IF S = {} THEN <<>>
    ELSE LET m == CHOOSE x \in S : \A y \in S : x <= y
         IN  <<m>> \o SetToSeq(S \ {m})

\* sketch.profiles once compute is resumed: the kernel derives the profiles, in an
\* order of its own, each bounded by some of the curves the sketch holds; no two
\* of them have both the same boundary and the same properties
KernelProfiles(sk, curves) ==
    LET tags == {curves[k].tag : k \in 1..Len(curves)}
        bounds == {<<[k \in 1..Cardinality(S) |-> Ent(SetToSeq(S)[k])]>> :
                      S \in (SUBSET tags) \ {{}}}
        cands == [profileLoops : bounds, areaProperties : DriverProps]
    IN  {WithHandles(sk, s) :
            s \in {t \in SeqsUpTo(cands, MaxProfiles) :
                      \A i, j \in 1..Len(t) : i # j => t[i] # t[j]}}

\* what adsk.core.ObjectCollection.add does with None is the kernel's choice
AddNonePolicies == {"raise", "ignore", "store"}

\* lines 162-166: the object collection, or the exception that ended the loop
RECURSIVE collect_profiles(_, _, _, _, _)
collect_profiles(refs, k, table, policy, acc) ==
    IF k > Len(refs) THEN [raised |-> "none", items |-> acc]
    ELSE LET r == lookup_profile(table, refs[k])
         IN  IF r.raised THEN [raised |-> "KeyError", items |-> acc]
             ELSE IF r.value = None /\ policy = "raise"
             THEN [raised |-> "RuntimeError", items |-> acc]
             ELSE IF r.value = None /\ policy = "ignore"
             THEN collect_profiles(refs, k + 1, table, policy, acc)
             ELSE collect_profiles(refs, k + 1, table, policy, Append(acc, r.value))

InTimeline == pos <= Len(timeline)
entity_uuid == timeline[pos]
lookup_entity == subscript(entities, entity_uuid)
entity == lookup_entity.value
IsSketch == ~lookup_entity.raised /\ entity.type = "Sketch"
IsExtrude == ~lookup_entity.raised /\ entity.type = "ExtrudeFeature"

Init ==
    /\ pc = "loop"
    /\ timeline \in SeqsUpTo(EntityIds, MaxTimeline)
    /\ pos = 1
    /\ err = "none"
    /\ sketch_profiles = EmptyMap
    /\ sketches = <<>>
    /\ curve_idx = 1
    /\ features = <<>>
    /\ create_input_calls = {}
    /\ last_return = NoReturn
    /\ MatchIdle
    /\ ExtrudeIdle

\* the for loop of reconstruct is exhausted
Finish ==
    /\ pc = "loop"
    /\ ~InTimeline
    /\ pc' = "done"
    /\ UNCHANGED <<driver_vars, match_vars, extrude_vars>>

\* line 36: self.data["entities"][entity_uuid] raises
EntityKeyError ==
    /\ pc = "loop"
    /\ InTimeline
    /\ lookup_entity.raised
    /\ pc' = "halted"
    /\ err' = "KeyError"
    /\ UNCHANGED <<timeline, pos, sketch_profiles, sketches, curve_idx, features,
                   create_input_calls, last_return, match_vars, extrude_vars>>

\* lines 38-44: neither a Sketch nor an ExtrudeFeature
IgnoreEntity ==
    /\ pc = "loop"
    /\ InTimeline
    /\ ~lookup_entity.raised
    /\ ~IsSketch /\ ~IsExtrude
    /\ pos' = next_entry(pos)
    /\ UNCHANGED <<pc, timeline, err, sketch_profiles, sketches, curve_idx, features,
                   create_input_calls, last_return, match_vars, extrude_vars>>

\* lines 91-92, 39-40: reconstruct_sketch returns None, nothing is merged
SketchWithoutCurves ==
    /\ pc = "loop"
    /\ InTimeline
    /\ IsSketch
    /\ "curves" \notin DOMAIN entity
    /\ last_return' = [entry |-> pos, is_none |-> TRUE, mapping |-> EmptyMap]
    /\ pos' = next_entry(pos)
    /\ UNCHANGED <<pc, timeline, err, sketch_profiles, sketches, curve_idx, features,
                   create_input_calls, match_vars, extrude_vars>>

\* lines 94-99, 106-108: the sketch is created and its compute is deferred
BeginSketch ==
    /\ pc = "loop"
    /\ InTimeline
    /\ IsSketch
    /\ "curves" \in DOMAIN entity
    /\ sketches' = Append(sketches,
            [entry |-> pos, isComputeDeferred |-> TRUE, resumes |-> 0,
             sketchCurves |-> <<>>, profiles |-> <<>>])
    /\ curve_idx' = 1
    /\ pc' = "curves"
    /\ UNCHANGED <<timeline, pos, err, sketch_profiles, features, create_input_calls,
                   last_return, match_vars, extrude_vars>>

sketch == sketches[Len(sketches)]
MoreCurves == pc = "curves" /\ curve_idx <= Len(entity.curves)
curve == entity.curves[curve_idx]

\* lines 123-124: construction geometry is not generated
SkipConstructionCurve ==
    /\ MoreCurves
    /\ curve.construction_geom
    /\ curve_idx' = curve_idx + 1
    /\ UNCHANGED <<pc, timeline, pos, err, sketch_profiles, sketches, features,
                   create_input_calls, last_return, match_vars, extrude_vars>>

\* lines 131-132: an unsupported curve type is reported and skipped
SkipUnsupportedCurve ==
    /\ MoreCurves
    /\ ~curve.construction_geom
    /\ curve.type \notin SupportedCurveTypes
    /\ curve_idx' = curve_idx + 1
    /\ UNCHANGED <<pc, timeline, pos, err, sketch_profiles, sketches, features,
                   create_input_calls, last_return, match_vars, extrude_vars>>

\* lines 134-156: the curve is created in the sketch and tagged with its uuid
CreateCurve ==
    /\ MoreCurves
    /\ ~curve.construction_geom
    /\ curve.type \in SupportedCurveTypes
    /\ PointRefs(curve) \subseteq entity.points
    /\ sketches' = [sketches EXCEPT ![Len(sketches)].sketchCurves =
            Append(@, [tag |-> curve.uuid, type |-> curve.type,
                       while_deferred |-> sketch.isComputeDeferred])]
    /\ curve_idx' = curve_idx + 1
    /\ UNCHANGED <<pc, timeline, pos, err, sketch_profiles, features,
                   create_input_calls, last_return, match_vars, extrude_vars>>

\* lines 137-138, 145-146, 153: points_data[...] raises, line 110 is never reached
CurveKeyError ==
    /\ MoreCurves
    /\ ~curve.construction_geom
    /\ curve.type \in SupportedCurveTypes
    /\ ~(PointRefs(curve) \subseteq entity.points)
    /\ pc' = "halted"
    /\ err' = "KeyError"
    /\ UNCHANGED <<timeline, pos, sketch_profiles, sketches, curve_idx, features,
                   create_input_calls, last_return, match_vars, extrude_vars>>

\* line 110: compute is resumed and the kernel derives the sketch's profiles
ResumeCompute ==
    /\ pc = "curves"
    /\ curve_idx > Len(entity.curves)
    /\ \E ps \in KernelProfiles(Len(sketches), sketch.sketchCurves) :
          sketches' = [sketches EXCEPT ![Len(sketches)] =
              [@ EXCEPT !.isComputeDeferred = FALSE, !.resumes = @ + 1, !.profiles = ps]]
    /\ pc' = "find"
    /\ UNCHANGED <<timeline, pos, err, sketch_profiles, curve_idx, features,
                   create_input_calls, last_return, match_vars, extrude_vars>>

\* lines 113-118, 103, 40-41: one find_profile per recorded profile, the mapping
\* is returned and, unless empty, merged into the table
FindProfiles ==
    /\ pc = "find"
    /\ LET sketch_profile_set == reconstruct_curves(sketch.profiles, entity)
       IN  /\ last_return' = [entry |-> pos, is_none |-> FALSE,
                              mapping |-> sketch_profile_set]
           /\ sketch_profiles' =
                IF DOMAIN sketch_profile_set # {}
                THEN update(sketch_profiles, sketch_profile_set)
                ELSE sketch_profiles
    /\ pos' = next_entry(pos)
    /\ pc' = "loop"
    /\ UNCHANGED <<timeline, err, sketches, curve_idx, features, create_input_calls,
                   match_vars, extrude_vars>>

\* lines 163-166: resolving the profiles raises; createInput is not reached
ExtrudeRaises ==
    /\ pc = "loop"
    /\ InTimeline
    /\ IsExtrude
    /\ \E policy \in AddNonePolicies :
          LET got == collect_profiles(entity.profiles, 1, sketch_profiles, policy, <<>>)
          IN  /\ got.raised # "none"
              /\ err' = got.raised
    /\ pc' = "halted"
    /\ UNCHANGED <<timeline, pos, sketch_profiles, sketches, curve_idx, features,
                   create_input_calls, last_return, match_vars, extrude_vars>>

\* lines 159-187: the profiles are collected, the input is created and set up,
\* the feature is added
ReconstructExtrude ==
    /\ pc = "loop"
    /\ InTimeline
    /\ IsExtrude
    /\ \E policy \in AddNonePolicies :
          LET got == collect_profiles(entity.profiles, 1, sketch_profiles, policy, <<>>)
          IN  /\ got.raised = "none"
              /\ features' = Append(features,
                    [entry |-> pos, profiles |-> got.items,
                     operation |-> entity.operation,
                     input |-> build_extrude_input(entity)])
    /\ create_input_calls' = create_input_calls \cup {pos}
    /\ pos' = next_entry(pos)
    /\ UNCHANGED <<pc, timeline, err, sketch_profiles, sketches, curve_idx,
                   last_return, match_vars, extrude_vars>>

Next ==
    \/ Finish
    \/ EntityKeyError
    \/ IgnoreEntity
    \/ SketchWithoutCurves
    \/ BeginSketch
    \/ SkipConstructionCurve
    \/ SkipUnsupportedCurve
    \/ CreateCurve
    \/ CurveKeyError
    \/ ResumeCompute
    \/ FindProfiles
    \/ ExtrudeRaises
    \/ ReconstructExtrude

Spec == Init /\ [][Next]_vars

-----------------------------------------------------------------------------
(* Claims about the driver *)

\* the extrude about to be processed names a profile id that is no key of the table
UnresolvedReference ==
    /\ pc = "loop"
    /\ InTimeline
    /\ IsExtrude
    /\ \E k \in 1..Len(entity.profiles) : entity.profiles[k] \notin DOMAIN sketch_profiles

\* C1: an extrude processed while one of its profile references is no key of the
\* lookup table halts the run with an error; neither createInput nor extrudes.add
\* runs for it.
C1_UnresolvedExtrudeHalts ==
    [][UnresolvedReference =>
          /\ pc' = "halted"
          /\ err' # "none"
          /\ create_input_calls' = create_input_calls
          /\ features' = features]_vars

\* the run halted on an extrude whose sketch comes later in the timeline
C1_Witness ==
    /\ pc = "halted"
    /\ err = "KeyError"
    /\ InTimeline
    /\ entity_uuid = "E1"
    /\ "pA" \notin DOMAIN sketch_profiles
    /\ \E j \in (pos + 1)..Len(timeline) : timeline[j] = "S1"
    /\ pos \notin create_input_calls
    /\ features = <<>>

\* the record of the timeline entry at position k
EntityAt(k) == entities[timeline[k]]

\* the sketch record of entry k has no curve at all
ZeroCurves(k) ==
    /\ timeline[k] \in DOMAIN entities
    /\ EntityAt(k).type = "Sketch"
    /\ "curves" \in DOMAIN EntityAt(k) => EntityAt(k).curves = <<>>

\* no curve was created in any sketch made for a record without curves
NoCurveCreated ==
    \A i \in 1..Len(sketches) :
        ZeroCurves(sketches[i].entry) => sketches[i].sketchCurves = <<>>

\* C6 as stated: on a sketch record with zero curves reconstruct_sketch returns a
\* mapping without any profile id and creates no curve, whatever the record's
\* profiles are.
C6_EmptyMapping ==
    /\ NoCurveCreated
    /\ (last_return.entry # 0 /\ ZeroCurves(last_return.entry)) =>
          DOMAIN last_return.mapping = {}

\* C6 amended: on a sketch record with zero curves reconstruct_sketch creates no
\* curve; without a "curves" key it returns None and creates no sketch, and with
\* an empty "curves" mapping it returns a mapping whose keys are exactly the
\* record's profile ids.
C6_KeysOfRecordedProfiles ==
    /\ NoCurveCreated
    /\ (last_return.entry # 0 /\ ZeroCurves(last_return.entry)) =>
          LET e == EntityAt(last_return.entry)
          IN  IF "curves" \notin DOMAIN e
              THEN /\ last_return.is_none
                   /\ \A i \in 1..Len(sketches) : sketches[i].entry # last_return.entry
              ELSE /\ ~last_return.is_none
                   /\ DOMAIN last_return.mapping = DOMAIN e.profiles

\* the sketch with an empty curves mapping and one recorded profile returned a
\* mapping holding that profile id
C6_Witness ==
    /\ last_return.entry # 0
    /\ timeline[last_return.entry] = "S3"
    /\ DOMAIN last_return.mapping = {"pB"}
    /\ \E i \in 1..Len(sketches) :
          sketches[i].entry = last_return.entry /\ sketches[i].sketchCurves = <<>>

\* C7 as stated: once written, no entry of the lookup table is removed or changed
\* by a later step.
C7_AppendOnly ==
    [][\A k \in DOMAIN sketch_profiles :
          k \in DOMAIN sketch_profiles' /\ sketch_profiles'[k] = sketch_profiles[k]]_vars

\* C7 amended: no key of the lookup table is ever removed, extrude reconstruction
\* never modifies the table, and the value of a key changes only when a later
\* sketch returns a mapping holding the same profile id, which overwrites it.
C7_KeysKeptValuesOverwritten ==
    [][/\ \A k \in DOMAIN sketch_profiles :
            /\ k \in DOMAIN sketch_profiles'
            /\ sketch_profiles'[k] # sketch_profiles[k] =>
                  /\ pc = "find"
                  /\ k \in DOMAIN last_return'.mapping
                  /\ sketch_profiles'[k] = last_return'.mapping[k]
       /\ (pc = "loop" /\ InTimeline /\ IsExtrude) => sketch_profiles' = sketch_profiles
      ]_vars

\* the first sketch wrote pA, the second sketch wrote another value over it, and
\* an extrude then ran with the table as it was
C7_Witness ==
    /\ Len(timeline) = 3
    /\ timeline[1] = "S1" /\ timeline[2] = "S1" /\ timeline[3] = "E1"
    /\ pc = "done"
    /\ find_profile(sketches[1].profiles, "pA", entities["S1"].profiles["pA"]) # None
    /\ sketch_profiles["pA"] #
          find_profile(sketches[1].profiles, "pA", entities["S1"].profiles["pA"])
    /\ Len(features) = 1

\* s is a prefix of t
IsPrefix(s, t) == Len(s) <= Len(t) /\ \A i \in 1..Len(s) : t[i] = s[i]

\* C9: the entries are processed in recorded order, one at a time; when an entry
\* fails the run halts with the error, nothing is processed afterwards, and what
\* earlier entries did to the document and to the lookup table stays.
C9_SequentialNoRollback ==
    [][/\ pc # "halted"
       /\ timeline' = timeline
       /\ pos' = pos \/ pos' = pos + 1
       /\ pos' = pos + 1 => (pc \in {"loop", "find"} /\ pc' = "loop")
       /\ pc' \in {"curves", "find"} => pos' = pos
       /\ IsPrefix(features, features')
       /\ Len(sketches) <= Len(sketches')
       /\ \A i \in 1..Len(sketches) :
              sketches[i].entry < pos => sketches'[i] = sketches[i]
       /\ \A i \in 1..Len(sketches') : sketches'[i].entry <= pos
       /\ pc' = "halted" =>
              /\ err' # "none"
              /\ pos' = pos
              /\ sketches' = sketches
              /\ features' = features
              /\ sketch_profiles' = sketch_profiles
              /\ create_input_calls' = create_input_calls
      ]_vars

\* the run halted on its second entry with a third left, the first entry's sketch
\* and table entry in place
C9_Witness ==
    /\ pc = "halted"
    /\ pos = 2
    /\ Len(timeline) = 3
    /\ Len(sketches) >= 1
    /\ sketches[1].entry = 1
    /\ DOMAIN sketch_profiles # {}
    /\ \A i \in 1..Len(sketches) : sketches[i].entry <= 2
    /\ features = <<>>

\* curves are created only while compute is deferred, compute is resumed at most
\* once per sketch, and the matcher has run only for sketches that were resumed
ComputeOrdering ==
    \A i \in 1..Len(sketches) :
        /\ \A k \in 1..Len(sketches[i].sketchCurves) :
               sketches[i].sketchCurves[k].while_deferred
        /\ sketches[i].resumes <= 1
        /\ sketches[i].isComputeDeferred <=> sketches[i].resumes = 0
        /\ last_return.entry = sketches[i].entry => sketches[i].resumes = 1
        /\ sketches[i].profiles # <<>> => sketches[i].resumes = 1

\* C10: every sketch started with curve data has its compute deferred before the
\* first curve, all its curves created while deferred, its compute resumed exactly
\* once and the matcher run only afterwards: no sketch is left deferred.
C10_ResumedExactlyOnce ==
    /\ ComputeOrdering
    /\ \A i \in 1..Len(sketches) :
          (i < Len(sketches) \/ pc # "curves") =>
              /\ ~sketches[i].isComputeDeferred
              /\ sketches[i].resumes = 1

====
